---- MODULE Spec2Model ----
(***************************************************************************)
(* Model of GovRedemption (src/main.go): the RedemptionManager, a mutex-   *)
(* guarded map team name -> Redemption used by concurrent callers, and the *)
(* CSV mapping loader.                                                     *)
(***************************************************************************)
EXTENDS Integers, Sequences, FiniteSets, TLC

\* ---------------------------------------------------------------- bounds
NumProcs == 2
MaxCalls == 3
MaxClock == 1
MaxRequests == 3

Procs == 1..NumProcs
TeamNames == {"RUST", "BASS"}
Ops == {"IsEligible", "AddRedemption"}
\* the values time.Now().UnixMilli() can return
Clock == 0..MaxClock

\* variant: the timestamp is left at the zero value
Redemption_ZeroTime(teamName, redeemedAt) == [TeamName |-> teamName, RedeemedAt |-> 0]

\* ---------------------------------------------------------------- values
\* Redemption{TeamName, RedeemedAt}
Redemption(teamName, redeemedAt) == [TeamName |-> teamName, RedeemedAt |-> redeemedAt]
\* the nil *Redemption / the zero value of a local not yet assigned
NoRec == [TeamName |-> "", RedeemedAt |-> -1]
AlreadyRedeemed == "team has already redeemed their gift"
NoErr == ""
NoResult == [val |-> FALSE, rec |-> NoRec, err |-> "pending"]
EmptyMap == [t \in {} |-> NoRec]

VARIABLES
  redemptions,   \* rm.redemptions : map[string]Redemption
  mu,            \* rm.mu : 0 = unlocked, p = held by caller p
  pc,            \* position of each caller inside its current call
  op,            \* the operation each caller is running
  arg,           \* its teamName argument
  exists,        \* the local `exists` of the call
  redemption,    \* the local `redemption` of AddRedemption
  result,        \* the value the call returns
  calls,         \* number of calls issued so far
  okCount,       \* per team: AddRedemption calls that returned success
  failCount,     \* per team: AddRedemption calls that returned an error
  addStarted,    \* per team: AddRedemption calls issued
  peak,          \* per team: most AddRedemption calls in flight at once, all issued on an empty slot
  okRec,         \* per team: the record returned by the last successful call
  pre,           \* per caller: the team's record when the call was issued
  okAtCall,      \* per caller: a successful AddRedemption(arg) had returned when the call was issued
  absentAtRet,   \* per caller: the team had no record when the call returned
  clockRead,     \* per caller: the clock value the call read
  csvFile,       \* the mapping file named on the command line
  loadPc,        \* position of the startup sequence of main
  mappings,      \* mappings returned by LoadMappingFromCSV
  loadErr,       \* err returned by LoadMappingFromCSV
  lookup,        \* lookup := BuildLookupMap(mappings)
  staffPassID,   \* the staffPassID main read at the prompt
  requests,      \* number of inputs main has read so far
  reqPc,         \* per caller: position in the request sequence of lines 157-167
  outcome,       \* per caller: the message its request printed
  resolved,      \* per team: inputs of main that resolved to the team
  storeAtPrompt  \* the store when main read its last input

guardVars == <<redemptions, mu, pc, op, arg, exists, redemption, result>>
ghostVars == <<calls, okCount, failCount, addStarted, peak, okRec, pre, okAtCall, absentAtRet, clockRead>>
loaderVars == <<csvFile, loadPc, mappings, loadErr, lookup>>
mainVars == <<staffPassID, requests, reqPc, outcome, resolved, storeAtPrompt>>
vars == <<guardVars, ghostVars, loaderVars, mainVars>>

\* variant: the lookup never finds the key
Exists_Never(store, teamName) == FALSE

\* ------------------------------------------------------- map primitives
\* the store has an entry under key teamName
HasRecord(store, teamName) == teamName \in DOMAIN store

\* _, exists := rm.redemptions[teamName]
Exists(store, teamName) == teamName \in DOMAIN store

\* variant: the map is replaced by a one-entry map
Insert_Replace(store, teamName, r) == [k \in {teamName} |-> r]

\* rm.redemptions[teamName] = redemption
Insert(store, teamName, r) ==
  [k \in DOMAIN store \cup {teamName} |-> IF k = teamName THEN r ELSE store[k]]

\* variants: the result ignores the lookup / is not negated
IsEligibleResult_True(ex) == TRUE
IsEligibleResult_Inverted(ex) == ex

\* return !exists
IsEligibleResult(ex) == ~ex

\* variant: the existence check is dropped
AddRedemptionRejects_Never(ex) == FALSE

\* if _, exists := ...; exists { return nil, errors.New(...) }
AddRedemptionRejects(ex) == ex

\* variant: Lock never waits
CanLock_Always(m) == TRUE

\* rm.mu.Lock() can proceed
CanLock(m) == m = 0

InFlight(p) == pc[p] \notin {"idle", "done"}
AddsInFlight(t) == {q \in Procs : InFlight(q) /\ op[q] = "AddRedemption" /\ arg[q] = t}
Max(a, b) == IF a >= b THEN a ELSE b

\* ------------------------------------------------------------------ Init
\* NewRedemptionManager(): empty map, unlocked mutex; no caller has started
NewRedemptionManager ==
  /\ redemptions = EmptyMap
  /\ mu = 0
  /\ pc = [p \in Procs |-> "idle"]
  /\ op = [p \in Procs |-> "IsEligible"]
  /\ arg = [p \in Procs |-> "RUST"]
  /\ exists = [p \in Procs |-> FALSE]
  /\ redemption = [p \in Procs |-> NoRec]
  /\ result = [p \in Procs |-> NoResult]
  /\ calls = 0
  /\ okCount = [t \in TeamNames |-> 0]
  /\ failCount = [t \in TeamNames |-> 0]
  /\ addStarted = [t \in TeamNames |-> 0]
  /\ peak = [t \in TeamNames |-> 0]
  /\ okRec = [t \in TeamNames |-> NoRec]
  /\ pre = [p \in Procs |-> NoRec]
  /\ okAtCall = [p \in Procs |-> FALSE]
  /\ absentAtRet = [p \in Procs |-> FALSE]
  /\ clockRead = [p \in Procs |-> -1]


\* ---------------------------------------------------------------- loader
\* rows of the input as encoding/csv splits them into fields
Header == <<"staff_pass_id", "team_name", "created_at">>
ShortHeader == <<"staff_pass_id", "team_name">>
BareQuote == <<"S1", "RU\"ST", "1000">>
SampleRows ==
  { Header, ShortHeader,
    <<"S1", "RUST", "1000">>,
    <<"S2", "BASS", "-5">>,
    <<"S1", "BASS", "+20">>,
    <<"S2", "RUST">>,
    <<"S1", "RUST", "12a">>,
    <<"S2", "BASS", "99999999999999999999">>,
    <<"S2", "RUST", "7", "note">>,
    BareQuote }
MaxRows == 3

RECURSIVE SeqsUpTo(_, _)
SeqsUpTo(S, n) ==
  IF n = 0 THEN {<<>>}
  ELSE LET shorter == SeqsUpTo(S, n - 1) IN
         shorter \cup {Append(q, x) : q \in {r \in shorter : Len(r) = n - 1}, x \in S}

\* the files main can be started on: one that cannot be opened, or any text
\* of up to MaxRows rows
Files ==
  {[opens |-> FALSE, rows |-> <<>>]} \cup
  {[opens |-> TRUE, rows |-> rs] : rs \in SeqsUpTo(SampleRows, MaxRows)}

\* the characters of the strings that reach strconv.ParseInt
Chars(s) ==
  CASE s = "1000" -> <<"1", "0", "0", "0">>
    [] s = "-5" -> <<"-", "5">>
    [] s = "+20" -> <<"+", "2", "0">>
    [] s = "12a" -> <<"1", "2", "a">>
    [] s = "7" -> <<"7">>
    [] s = "99999999999999999999" -> [i \in 1..20 |-> "9"]
    [] s = "created_at" -> <<"c", "r", "e", "a", "t", "e", "d", "_", "a", "t">>
    [] OTHER -> <<>>

DigitVal(c) ==
  CASE c = "0" -> 0 [] c = "1" -> 1 [] c = "2" -> 2 [] c = "3" -> 3 [] c = "4" -> 4
    [] c = "5" -> 5 [] c = "6" -> 6 [] c = "7" -> 7 [] c = "8" -> 8 [] c = "9" -> 9
    [] OTHER -> -1

RECURSIVE DigitsValue(_, _)
DigitsValue(cs, acc) ==
  IF cs = <<>> THEN acc ELSE DigitsValue(Tail(cs), acc * 10 + DigitVal(Head(cs)))

\* digits of an int64 magnitude: at most 19 (longer digit strings are out of
\* range; the sample strings have no leading zeros)
MaxInt64Digits == 19

\* strconv.ParseInt(s, 10, 64): optional sign, then one or more decimal
\* digits, within the int64 range
ParseInt(s) ==
  LET cs == Chars(s)
      signed == cs # <<>> /\ Head(cs) \in {"+", "-"}
      body == IF signed THEN Tail(cs) ELSE cs
      syntaxOk == body # <<>> /\ \A i \in 1..Len(body) : DigitVal(body[i]) >= 0
      rangeOk == Len(body) < MaxInt64Digits
      mag == DigitsValue(body, 0)
  IN IF syntaxOk /\ rangeOk
       THEN [ok |-> TRUE, val |-> IF signed /\ Head(cs) = "-" THEN 0 - mag ELSE mag]
       ELSE [ok |-> FALSE, val |-> 0]

\* a field with a bare double quote makes the csv reader fail
HasBareQuote(row) == row = BareQuote

\* csv.Reader with FieldsPerRecord = 0: every record must have as many
\* fields as the first one
FieldCountOk(rows, i) == Len(rows[i]) = Len(rows[1])

\* reader := csv.NewReader(file); records, err := reader.ReadAll()
ReadAll(rows) ==
  IF \E i \in 1..Len(rows) : HasBareQuote(rows[i]) \/ ~FieldCountOk(rows, i)
    THEN [records |-> <<>>, err |-> "error reading CSV file"]
    ELSE [records |-> rows, err |-> NoErr]

StaffMapping(passID, teamName, createdAt) ==
  [StaffPassID |-> passID, TeamName |-> teamName, CreatedAt |-> createdAt]

\* variant: the first row is loaded like any other row
RECURSIVE LoadRecords_KeepsHeader(_, _)
LoadRecords_KeepsHeader(records, i) ==
  IF i > Len(records) THEN <<>>
  ELSE LET record == records[i]
           rest == LoadRecords_KeepsHeader(records, i + 1)
       IN IF Len(record) < 3 THEN rest
          ELSE LET createdAt == ParseInt(record[3]) IN
                 IF ~createdAt.ok THEN rest
                 ELSE <<StaffMapping(record[1], record[2], createdAt.val)>> \o rest

\* the loop over records of LoadMappingFromCSV, from index i (1 = header)
RECURSIVE LoadRecords(_, _)
LoadRecords(records, i) ==
  IF i > Len(records) THEN <<>>
  ELSE LET record == records[i]
           rest == LoadRecords(records, i + 1)
       IN IF i = 1 THEN rest
          ELSE IF Len(record) < 3 THEN rest
          ELSE LET createdAt == ParseInt(record[3]) IN
                 IF ~createdAt.ok THEN rest
                 ELSE <<StaffMapping(record[1], record[2], createdAt.val)>> \o rest

\* LoadMappingFromCSV(filePath)
LoadMappingFromCSV(file) ==
  IF ~file.opens
    THEN [mappings |-> <<>>, err |-> "unable to open CSV file"]
    ELSE LET r == ReadAll(file.rows) IN
           IF r.err # NoErr
             THEN [mappings |-> <<>>, err |-> r.err]
             ELSE [mappings |-> LoadRecords(r.records, 1), err |-> NoErr]

\* variant: an entry already in the map is kept
RECURSIVE BuildLookupMap_FirstWins(_)
BuildLookupMap_FirstWins(ms) ==
  IF ms = <<>> THEN [k \in {} |-> ""]
  ELSE LET front == BuildLookupMap_FirstWins(SubSeq(ms, 1, Len(ms) - 1))
           last == ms[Len(ms)]
       IN [k \in DOMAIN front \cup {last.StaffPassID} |->
             IF k \in DOMAIN front THEN front[k] ELSE last.TeamName]

\* BuildLookupMap(mappings): later entries overwrite earlier ones
RECURSIVE BuildLookupMap(_)
BuildLookupMap(ms) ==
  IF ms = <<>> THEN [k \in {} |-> ""]
  ELSE LET front == BuildLookupMap(SubSeq(ms, 1, Len(ms) - 1))
           last == ms[Len(ms)]
       IN [k \in DOMAIN front \cup {last.StaffPassID} |->
             IF k = last.StaffPassID THEN last.TeamName ELSE front[k]]

EmptyLookup == [k \in {} |-> ""]

\* main before it runs: the file named by os.Args[1]
MainStart(files) ==
  /\ csvFile \in files
  /\ loadPc = "start"
  /\ mappings = <<>>
  /\ loadErr = NoErr
  /\ lookup = EmptyLookup
  /\ staffPassID = ""
  /\ requests = 0
  /\ reqPc = [p \in Procs |-> "none"]
  /\ outcome = [p \in Procs |-> "none"]
  /\ resolved = [t \in TeamNames |-> 0]
  /\ storeAtPrompt = EmptyMap

\* variant: main goes on although the load returned an error
Load_IgnoresErr ==
  /\ loadPc = "start"
  /\ LET r == LoadMappingFromCSV(csvFile) IN
       /\ mappings' = r.mappings
       /\ loadErr' = r.err
       /\ loadPc' = "loaded"
  /\ UNCHANGED <<csvFile, lookup, guardVars, ghostVars, mainVars>>

\* mappings, err := LoadMappingFromCSV(mappingFile)
Load ==
  /\ loadPc = "start"
  /\ LET r == LoadMappingFromCSV(csvFile) IN
       /\ mappings' = r.mappings
       /\ loadErr' = r.err
       /\ loadPc' = IF r.err # NoErr THEN "failed" ELSE "loaded"
  /\ UNCHANGED <<csvFile, lookup, guardVars, ghostVars, mainVars>>

\* lookup := BuildLookupMap(mappings)
BuildLookup ==
  /\ loadPc = "loaded"
  /\ lookup' = BuildLookupMap(mappings)
  /\ loadPc' = "ready"
  /\ UNCHANGED <<csvFile, mappings, loadErr, guardVars, ghostVars, mainVars>>

\* --------------------------------------------------------------- actions
\* caller p enters rm.IsEligible(t) or rm.AddRedemption(t)
Issue(p, o, t) ==
  /\ pc[p] \in {"idle", "done"}
  /\ op' = [op EXCEPT ![p] = o]
  /\ arg' = [arg EXCEPT ![p] = t]
  /\ pre' = [pre EXCEPT ![p] = IF HasRecord(redemptions, t) THEN redemptions[t] ELSE NoRec]
  /\ okAtCall' = [okAtCall EXCEPT ![p] = okCount[t] >= 1]
  /\ addStarted' = IF o = "AddRedemption"
                     THEN [addStarted EXCEPT ![t] = @ + 1]
                     ELSE addStarted
  /\ peak' = IF o = "AddRedemption" /\ ~HasRecord(redemptions, t)
               THEN [peak EXCEPT ![t] = Max(@, Cardinality(AddsInFlight(t)) + 1)]
               ELSE peak
  /\ pc' = [pc EXCEPT ![p] = "lock"]
  /\ exists' = [exists EXCEPT ![p] = FALSE]
  /\ redemption' = [redemption EXCEPT ![p] = NoRec]
  /\ result' = [result EXCEPT ![p] = NoResult]
  /\ absentAtRet' = [absentAtRet EXCEPT ![p] = FALSE]
  /\ clockRead' = [clockRead EXCEPT ![p] = -1]
  /\ calls' = calls + 1
  /\ UNCHANGED <<redemptions, mu, okCount, failCount, okRec>>
  /\ UNCHANGED loaderVars


\* ------------------------------------------------------------ main loop
\* the goroutine that runs main
MainProc == 1
\* what fmt.Scanln can put in staffPassID
Inputs == {"S1", "S2", "S9", "exit"}
NotFound == "Staff pass ID not found."
TeamAlreadyRedeemed == "Team has already redeemed their gift. Please send the representative away."
RedemptionError == "Error during redemption:"
RedemptionSuccessful == "Redemption successful"

\* the files main is started on
MainFiles ==
  { [opens |-> FALSE, rows |-> <<>>],
    [opens |-> TRUE, rows |-> <<Header, BareQuote>>],
    [opens |-> TRUE, rows |-> <<Header, <<"S2", "RUST">> >>],
    [opens |-> TRUE, rows |-> <<Header>>],
    [opens |-> TRUE, rows |-> <<Header, <<"S1", "RUST", "1000">>, <<"S2", "BASS", "-5">> >>],
    [opens |-> TRUE, rows |-> <<Header, <<"S1", "BASS", "+20">>, <<"S2", "BASS", "-5">> >>] }

\* redemptionManager := NewRedemptionManager()
CreateManager ==
  /\ loadPc = "ready"
  /\ redemptions' = EmptyMap
  /\ mu' = 0
  /\ loadPc' = "prompt"
  /\ UNCHANGED <<pc, op, arg, exists, redemption, result, ghostVars,
                 csvFile, mappings, loadErr, lookup, mainVars>>

\* if redemptionManager.IsEligible(teamName) { ... : the call is entered
StartRequest(p, t) ==
  /\ Issue(p, "IsEligible", t)
  /\ reqPc' = [reqPc EXCEPT ![p] = "check"]
  /\ outcome' = [outcome EXCEPT ![p] = "none"]

\* IsEligible returned: enter AddRedemption, or print that the team has redeemed
AfterIsEligible(p) ==
  /\ reqPc[p] = "check"
  /\ pc[p] = "done"
  /\ IF result[p].val
       THEN /\ Issue(p, "AddRedemption", arg[p])
            /\ reqPc' = [reqPc EXCEPT ![p] = "add"]
            /\ outcome' = outcome
       ELSE /\ outcome' = [outcome EXCEPT ![p] = TeamAlreadyRedeemed]
            /\ reqPc' = [reqPc EXCEPT ![p] = "out"]
            /\ UNCHANGED <<guardVars, ghostVars, loaderVars>>
  /\ UNCHANGED <<staffPassID, requests, resolved, storeAtPrompt>>

\* variant: the staff id is removed from the lookup once its request is served
AfterAddRedemption_Forgets(p) ==
  /\ reqPc[p] = "add"
  /\ pc[p] = "done"
  /\ outcome' = [outcome EXCEPT ![p] =
                   IF result[p].err # NoErr THEN RedemptionError ELSE RedemptionSuccessful]
  /\ reqPc' = [reqPc EXCEPT ![p] = "out"]
  /\ lookup' = [k \in DOMAIN lookup \ {staffPassID} |-> lookup[k]]
  /\ UNCHANGED <<guardVars, ghostVars, csvFile, loadPc, mappings, loadErr,
                 staffPassID, requests, resolved, storeAtPrompt>>

\* AddRedemption returned: print the error or the success
AfterAddRedemption(p) ==
  /\ reqPc[p] = "add"
  /\ pc[p] = "done"
  /\ outcome' = [outcome EXCEPT ![p] =
                   IF result[p].err # NoErr THEN RedemptionError ELSE RedemptionSuccessful]
  /\ reqPc' = [reqPc EXCEPT ![p] = "out"]
  /\ UNCHANGED <<guardVars, ghostVars, loaderVars, staffPassID, requests, resolved, storeAtPrompt>>

\* variant: an unknown id leaves the loop
PromptMiss_Break ==
  /\ outcome' = [outcome EXCEPT ![MainProc] = NotFound]
  /\ reqPc' = [reqPc EXCEPT ![MainProc] = "out"]
  /\ loadPc' = "exited"
  /\ UNCHANGED <<guardVars, ghostVars, csvFile, mappings, loadErr, lookup, resolved>>

\* if !found { fmt.Println("Staff pass ID not found."); continue }
PromptMiss ==
  /\ outcome' = [outcome EXCEPT ![MainProc] = NotFound]
  /\ reqPc' = [reqPc EXCEPT ![MainProc] = "out"]
  /\ UNCHANGED <<guardVars, ghostVars, loaderVars, resolved>>

\* one pass through the head of the for loop: read staffPassID, leave on
\* "exit", report an unknown id, or start the request for its team
Prompt ==
  /\ loadPc = "prompt"
  /\ reqPc[MainProc] \in {"none", "out"}
  /\ requests < MaxRequests
  /\ \E input \in Inputs :
       /\ staffPassID' = input
       /\ IF input = "exit"
            THEN /\ loadPc' = "exited"
                 /\ UNCHANGED <<guardVars, ghostVars, csvFile, mappings, loadErr, lookup,
                                reqPc, outcome, resolved>>
            ELSE IF input \notin DOMAIN lookup
              THEN PromptMiss
              ELSE /\ StartRequest(MainProc, lookup[input])
                   /\ resolved' = [resolved EXCEPT ![lookup[input]] = @ + 1]
  /\ requests' = requests + 1
  /\ storeAtPrompt' = redemptions

\* a caller issues rm.IsEligible(t) or rm.AddRedemption(t)
Call(p) ==
  /\ calls < MaxCalls
  /\ \E o \in Ops, t \in TeamNames : Issue(p, o, t)
  /\ UNCHANGED mainVars

\* rm.mu.Lock()
Lock(p) ==
  /\ pc[p] = "lock"
  /\ CanLock(mu)
  /\ mu' = p
  /\ pc' = [pc EXCEPT ![p] = "read"]
  /\ UNCHANGED <<redemptions, op, arg, exists, redemption, result, ghostVars>>
  /\ UNCHANGED <<loaderVars, mainVars>>

\* variant: the eligibility check reserves the slot
IsEligibleRead_Marks(p) ==
  /\ pc[p] = "read"
  /\ op[p] = "IsEligible"
  /\ LET ex == Exists(redemptions, arg[p]) IN
       /\ exists' = [exists EXCEPT ![p] = ex]
       /\ result' = [result EXCEPT ![p] = [val |-> IsEligibleResult(ex), rec |-> NoRec, err |-> NoErr]]
  /\ \E t \in Clock : redemptions' = Insert(redemptions, arg[p], Redemption(arg[p], t))
  /\ pc' = [pc EXCEPT ![p] = "unlock"]
  /\ UNCHANGED <<mu, op, arg, redemption, ghostVars>>
  /\ UNCHANGED <<loaderVars, mainVars>>

\* IsEligible: _, exists := rm.redemptions[teamName]; return !exists
IsEligibleRead(p) ==
  /\ pc[p] = "read"
  /\ op[p] = "IsEligible"
  /\ LET ex == Exists(redemptions, arg[p]) IN
       /\ exists' = [exists EXCEPT ![p] = ex]
       /\ result' = [result EXCEPT ![p] = [val |-> IsEligibleResult(ex), rec |-> NoRec, err |-> NoErr]]
  /\ pc' = [pc EXCEPT ![p] = "unlock"]
  /\ UNCHANGED <<redemptions, mu, op, arg, redemption, ghostVars>>
  /\ UNCHANGED <<loaderVars, mainVars>>

\* variant: a repeated redemption refreshes the stored timestamp before failing
AddRedemptionCheck_Refresh(p) ==
  /\ pc[p] = "read"
  /\ op[p] = "AddRedemption"
  /\ LET ex == Exists(redemptions, arg[p]) IN
       /\ exists' = [exists EXCEPT ![p] = ex]
       /\ IF AddRedemptionRejects(ex)
            THEN /\ result' = [result EXCEPT ![p] = [val |-> FALSE, rec |-> NoRec, err |-> AlreadyRedeemed]]
                 /\ \E t \in Clock : redemptions' = Insert(redemptions, arg[p], Redemption(arg[p], t))
                 /\ pc' = [pc EXCEPT ![p] = "unlock"]
            ELSE /\ result' = result
                 /\ redemptions' = redemptions
                 /\ pc' = [pc EXCEPT ![p] = "create"]
  /\ UNCHANGED <<mu, op, arg, redemption, ghostVars>>
  /\ UNCHANGED <<loaderVars, mainVars>>

\* variant: the check runs under its own lock hold, released before the insert
AddRedemptionCheck_Unlocks(p) ==
  /\ pc[p] = "read"
  /\ op[p] = "AddRedemption"
  /\ LET ex == Exists(redemptions, arg[p]) IN
       /\ exists' = [exists EXCEPT ![p] = ex]
       /\ IF AddRedemptionRejects(ex)
            THEN /\ result' = [result EXCEPT ![p] = [val |-> FALSE, rec |-> NoRec, err |-> AlreadyRedeemed]]
                 /\ pc' = [pc EXCEPT ![p] = "unlock"]
                 /\ mu' = mu
            ELSE /\ result' = result
                 /\ pc' = [pc EXCEPT ![p] = "create"]
                 /\ mu' = 0
  /\ UNCHANGED <<redemptions, op, arg, redemption, ghostVars>>
  /\ UNCHANGED <<loaderVars, mainVars>>

\* AddRedemption: if _, exists := rm.redemptions[teamName]; exists { return nil, errors.New(...) }
AddRedemptionCheck(p) ==
  /\ pc[p] = "read"
  /\ op[p] = "AddRedemption"
  /\ LET ex == Exists(redemptions, arg[p]) IN
       /\ exists' = [exists EXCEPT ![p] = ex]
       /\ IF AddRedemptionRejects(ex)
            THEN /\ result' = [result EXCEPT ![p] = [val |-> FALSE, rec |-> NoRec, err |-> AlreadyRedeemed]]
                 /\ pc' = [pc EXCEPT ![p] = "unlock"]
            ELSE /\ result' = result
                 /\ pc' = [pc EXCEPT ![p] = "create"]
  /\ UNCHANGED <<redemptions, mu, op, arg, redemption, ghostVars>>
  /\ UNCHANGED <<loaderVars, mainVars>>

\* redemption := Redemption{TeamName: teamName, RedeemedAt: time.Now().UnixMilli()}
AddRedemptionCreate(p) ==
  /\ pc[p] = "create"
  /\ \E t \in Clock :
       /\ redemption' = [redemption EXCEPT ![p] = Redemption(arg[p], t)]
       /\ clockRead' = [clockRead EXCEPT ![p] = t]
  /\ pc' = [pc EXCEPT ![p] = "store"]
  /\ UNCHANGED <<redemptions, mu, op, arg, exists, result,
                 calls, okCount, failCount, addStarted, peak, okRec, pre, okAtCall, absentAtRet>>
  /\ UNCHANGED <<loaderVars, mainVars>>

\* rm.redemptions[teamName] = redemption; return &redemption, nil
AddRedemptionStore(p) ==
  /\ pc[p] = "store"
  /\ redemptions' = Insert(redemptions, arg[p], redemption[p])
  /\ result' = [result EXCEPT ![p] = [val |-> TRUE, rec |-> redemption[p], err |-> NoErr]]
  /\ pc' = [pc EXCEPT ![p] = "unlock"]
  /\ UNCHANGED <<mu, op, arg, exists, redemption, ghostVars>>
  /\ UNCHANGED <<loaderVars, mainVars>>

\* variant: the early return of the failure path leaves the mutex locked
Unlock_SkipsOnError(p) ==
  /\ pc[p] = "unlock"
  /\ mu' = IF result[p].err = AlreadyRedeemed THEN mu ELSE 0
  /\ pc' = [pc EXCEPT ![p] = "ret"]
  /\ UNCHANGED <<redemptions, op, arg, exists, redemption, result, ghostVars>>
  /\ UNCHANGED <<loaderVars, mainVars>>

\* defer rm.mu.Unlock()
Unlock(p) ==
  /\ pc[p] = "unlock"
  /\ mu' = 0
  /\ pc' = [pc EXCEPT ![p] = "ret"]
  /\ UNCHANGED <<redemptions, op, arg, exists, redemption, result, ghostVars>>
  /\ UNCHANGED <<loaderVars, mainVars>>

\* the call returns to its caller
Return(p) ==
  /\ pc[p] = "ret"
  /\ pc' = [pc EXCEPT ![p] = "done"]
  /\ absentAtRet' = [absentAtRet EXCEPT ![p] = ~HasRecord(redemptions, arg[p])]
  /\ IF op[p] = "AddRedemption"
       THEN IF result[p].err = NoErr
              THEN /\ okCount' = [okCount EXCEPT ![arg[p]] = @ + 1]
                   /\ okRec' = [okRec EXCEPT ![arg[p]] = result[p].rec]
                   /\ failCount' = failCount
              ELSE /\ failCount' = [failCount EXCEPT ![arg[p]] = @ + 1]
                   /\ UNCHANGED <<okCount, okRec>>
       ELSE UNCHANGED <<okCount, okRec, failCount>>
  /\ UNCHANGED <<redemptions, mu, op, arg, exists, redemption, result, calls, addStarted, peak, pre, okAtCall, clockRead>>
  /\ UNCHANGED <<loaderVars, mainVars>>

Next ==
  \/ \E p \in Procs : Call(p)
  \/ \E p \in Procs : Lock(p)
  \/ \E p \in Procs : IsEligibleRead(p)
  \/ \E p \in Procs : AddRedemptionCheck(p)
  \/ \E p \in Procs : AddRedemptionCreate(p)
  \/ \E p \in Procs : AddRedemptionStore(p)
  \/ \E p \in Procs : Unlock(p)
  \/ \E p \in Procs : Return(p)

\* callers of one Guard; the loader plays no part
Init == NewRedemptionManager /\ MainStart({[opens |-> TRUE, rows |-> <<Header>>]})

Spec == Init /\ [][Next]_vars

\* the steps of caller p that do not wait for the mutex
Advance(p) ==
  \/ IsEligibleRead(p)
  \/ AddRedemptionCheck(p)
  \/ AddRedemptionCreate(p)
  \/ AddRedemptionStore(p)
  \/ Unlock(p)
  \/ Return(p)

\* callers of one team under a fair scheduler: a runnable goroutine is
\* eventually run, and sync.Mutex hands the lock to a goroutine that keeps
\* waiting for it (starvation mode)
\* a caller issues rm.IsEligible or rm.AddRedemption for the contended team
CallContended(p) ==
  /\ calls < MaxCalls
  /\ \E o \in Ops : Issue(p, o, "RUST")
  /\ UNCHANGED mainVars

NextFair ==
  \/ \E p \in Procs : CallContended(p)
  \/ \E p \in Procs : Lock(p)
  \/ \E p \in Procs : Advance(p)

SpecFair ==
  /\ Init
  /\ [][NextFair]_vars
  /\ \A p \in Procs : WF_vars(Advance(p)) /\ SF_vars(Lock(p))

\* the startup of main on each file of Files
InitLoad == NewRedemptionManager /\ MainStart(Files)

NextLoad ==
  \/ Load
  \/ BuildLookup

SpecLoad == InitLoad /\ [][NextLoad]_vars

\* main, alone on its Guard, started on each file of MainFiles
InitMain == NewRedemptionManager /\ MainStart(MainFiles)

NextMain ==
  \/ Load
  \/ BuildLookup
  \/ CreateManager
  \/ Prompt
  \/ Lock(MainProc)
  \/ IsEligibleRead(MainProc)
  \/ AddRedemptionCheck(MainProc)
  \/ AddRedemptionCreate(MainProc)
  \/ AddRedemptionStore(MainProc)
  \/ Unlock(MainProc)
  \/ Return(MainProc)
  \/ AfterIsEligible(MainProc)
  \/ AfterAddRedemption(MainProc)

SpecMain == InitMain /\ [][NextMain]_vars

\* a caller starts the request sequence of lines 157-167 for some team
StartReq(p) ==
  /\ reqPc[p] = "none"
  /\ \E t \in TeamNames : StartRequest(p, t)
  /\ UNCHANGED <<staffPassID, requests, resolved, storeAtPrompt>>

\* concurrent callers on one Guard, each running the request sequence once
NextReq ==
  \/ \E p \in Procs : StartReq(p)
  \/ \E p \in Procs : Lock(p)
  \/ \E p \in Procs : IsEligibleRead(p)
  \/ \E p \in Procs : AddRedemptionCheck(p)
  \/ \E p \in Procs : AddRedemptionCreate(p)
  \/ \E p \in Procs : AddRedemptionStore(p)
  \/ \E p \in Procs : Unlock(p)
  \/ \E p \in Procs : Return(p)
  \/ \E p \in Procs : AfterIsEligible(p)
  \/ \E p \in Procs : AfterAddRedemption(p)

SpecReq == Init /\ [][NextReq]_vars

\* ---------------------------------------------------------------- claims
Success(p) == op[p] = "AddRedemption" /\ result[p].err = NoErr /\ result[p].val
Failure == [val |-> FALSE, rec |-> NoRec, err |-> AlreadyRedeemed]
RecordsOf(t) == {k \in DOMAIN redemptions : redemptions[k].TeamName = t}
Steps(p) == pc'[p] # pc[p]

\* C1: in every reachable state the store holds at most one record per team
\* name, and at most one AddRedemption(team) call has produced success
\* (counting calls that returned and calls about to return).
C1_AtMostOneRedemption ==
  \A t \in TeamNames :
    /\ Cardinality(RecordsOf(t)) <= 1
    /\ okCount[t] + Cardinality({p \in Procs : pc[p] \in {"unlock", "ret"} /\ arg[p] = t /\ Success(p)}) <= 1
C1_Witness ==
  /\ okCount["RUST"] = 1 /\ failCount["RUST"] >= 1 /\ peak["RUST"] >= 2
  /\ Cardinality(RecordsOf("RUST")) = 1

\* C2: once every AddRedemption(t) call issued so far has returned, exactly
\* one of them succeeded, all the others failed with AlreadyRedeemed, and the
\* store holds the record the successful call returned.
C2_OneWinner ==
  \A t \in TeamNames :
    (addStarted[t] >= 1 /\ AddsInFlight(t) = {}) =>
      /\ okCount[t] = 1
      /\ failCount[t] = addStarted[t] - 1
      /\ HasRecord(redemptions, t)
      /\ redemptions[t] = okRec[t]
C2_Witness ==
  /\ peak["RUST"] = NumProcs
  /\ AddsInFlight("RUST") = {}
  /\ okCount["RUST"] = 1
  /\ failCount["RUST"] = NumProcs - 1

\* C3: an IsEligible(t) call that returns while t has no record returns true;
\* an IsEligible(t) call issued after a successful AddRedemption(t) returned
\* returns false.
C3_EligibleBeforeNotAfter ==
  \A p \in Procs :
    (pc[p] = "done" /\ op[p] = "IsEligible") =>
      /\ absentAtRet[p] => result[p].val = TRUE
      /\ okAtCall[p] => result[p].val = FALSE
C3_Witness ==
  \E p, q \in Procs :
    /\ pc[p] = "done" /\ op[p] = "IsEligible" /\ arg[p] = "RUST"
    /\ absentAtRet[p] /\ result[p].val = TRUE
    /\ pc[q] = "done" /\ op[q] = "IsEligible" /\ arg[q] = "RUST"
    /\ okAtCall[q] /\ result[q].val = FALSE

\* C4: every step of an AddRedemption(t) call issued when t already had a
\* record leaves the whole store unchanged, the record of t stays the one
\* seen when the call was issued, and the call returns the AlreadyRedeemed
\* failure with no record.
C4_RejectLeavesStore ==
  [][\A p \in Procs :
       (Steps(p) /\ InFlight(p) /\ op[p] = "AddRedemption" /\ pre[p] # NoRec) =>
         /\ redemptions' = redemptions
         /\ HasRecord(redemptions, arg[p]) /\ redemptions[arg[p]] = pre[p]
         /\ pc'[p] \notin {"create", "store"}
         /\ pc'[p] = "done" => result'[p] = Failure]_vars
C4_Witness ==
  \E p \in Procs :
    /\ pc[p] = "done" /\ op[p] = "AddRedemption" /\ pre[p] # NoRec
    /\ result[p] = Failure /\ redemptions[arg[p]] = pre[p]
    /\ pre[p].RedeemedAt = 1

\* C5: an AddRedemption(t) call whose check finds no record for t succeeds,
\* returns a record with TeamName = t and RedeemedAt = the clock value it
\* read, and the store's entry for t is exactly that record.
C5_SuccessRecord ==
  \A p \in Procs :
    (op[p] = "AddRedemption" /\ pc[p] \in {"unlock", "ret", "done"} /\ ~exists[p]) =>
      /\ result[p].err = NoErr
      /\ result[p].rec.TeamName = arg[p]
      /\ result[p].rec.RedeemedAt = clockRead[p]
      /\ HasRecord(redemptions, arg[p])
      /\ redemptions[arg[p]] = result[p].rec
C5_Witness ==
  \E p \in Procs :
    /\ op[p] = "AddRedemption" /\ pc[p] = "done" /\ ~exists[p]
    /\ result[p].rec = Redemption("BASS", 1)
    /\ redemptions["BASS"] = result[p].rec

\* C6: a team's record, once in the store, stays there unchanged in every
\* later state, and a record enters the store only by the store step of an
\* AddRedemption call for that team that returns success.
C6_RedeemedIsTerminal ==
  [][\A t \in TeamNames :
       /\ HasRecord(redemptions, t) =>
            HasRecord(redemptions', t) /\ redemptions'[t] = redemptions[t]
       /\ (~HasRecord(redemptions, t) /\ HasRecord(redemptions', t)) =>
            \E p \in Procs :
              /\ op[p] = "AddRedemption" /\ arg[p] = t
              /\ pc[p] = "store" /\ pc'[p] = "unlock"
              /\ result'[p].err = NoErr
              /\ redemptions'[t] = result'[p].rec
              /\ redemptions'[t].TeamName = t]_vars
C6_Witness ==
  /\ HasRecord(redemptions, "RUST")
  /\ redemptions["RUST"].RedeemedAt = 1
  /\ failCount["RUST"] >= 1
  /\ \E p \in Procs : pc[p] = "done" /\ op[p] = "IsEligible" /\ arg[p] = "RUST" /\ okAtCall[p]

\* C7: while an IsEligible(t) call holds the lock after its read, the value
\* it is about to return is the negation of t's membership in the store.
C7_ResultIsNonMembership ==
  \A p \in Procs :
    (op[p] = "IsEligible" /\ pc[p] = "unlock") =>
      result[p].val = ~(arg[p] \in DOMAIN redemptions)
C7_Witness ==
  \E p, q \in Procs :
    /\ op[p] = "IsEligible" /\ pc[p] = "unlock" /\ result[p].val = FALSE
    /\ q # p /\ op[q] = "AddRedemption" /\ arg[q] = arg[p] /\ pc[q] = "lock"

\* C8: no step of an IsEligible call changes the store.
C8_IsEligiblePure ==
  [][\A p \in Procs :
       (Steps(p) /\ op'[p] = "IsEligible") => redemptions' = redemptions]_vars
C8_Witness ==
  \E p, q \in Procs :
    /\ pc[p] = "done" /\ op[p] = "IsEligible" /\ result[p].val = TRUE
    /\ pc[q] = "done" /\ op[q] = "IsEligible" /\ result[q].val = FALSE
    /\ DOMAIN redemptions = {arg[q]}

\* C9: no step of an AddRedemption(t) call, successful or not, changes the
\* presence or the contents of the record of another team u # t.
C9_TeamsIndependent ==
  [][\A p \in Procs :
       (Steps(p) /\ op'[p] = "AddRedemption") =>
         \A u \in TeamNames \ {arg'[p]} :
           /\ HasRecord(redemptions', u) = HasRecord(redemptions, u)
           /\ HasRecord(redemptions, u) => redemptions'[u] = redemptions[u]]_vars
C9_Witness ==
  /\ okCount["RUST"] = 1 /\ failCount["RUST"] = 1
  /\ HasRecord(redemptions, "BASS")
  /\ redemptions["BASS"].RedeemedAt # redemptions["RUST"].RedeemedAt

\* C10: loading a file that opens and is well-formed CSV, and that has a data
\* row with fewer than 3 fields, raises no error; the loaded sequence has one
\* record per valid data row (so the short row is absent) and every valid
\* data row is in it.
ValidRow(row) == Len(row) >= 3 /\ ParseInt(row[3]).ok
WellFormed(file) == file.opens /\ \A i \in 1..Len(file.rows) : ~HasBareQuote(file.rows[i])
HasShortDataRow(file) == \E i \in 2..Len(file.rows) : Len(file.rows[i]) < 3
ValidDataRows(file) == {i \in 2..Len(file.rows) : ValidRow(file.rows[i])}
C10_ShortRowSkipped ==
  (loadPc # "start" /\ WellFormed(csvFile) /\ HasShortDataRow(csvFile)) =>
    /\ loadErr = NoErr
    /\ Len(mappings) = Cardinality(ValidDataRows(csvFile))
    /\ \A i \in ValidDataRows(csvFile) :
         \E j \in 1..Len(mappings) :
           mappings[j] = StaffMapping(csvFile.rows[i][1], csvFile.rows[i][2], ParseInt(csvFile.rows[i][3]).val)

\* C11: for every input the csv reader accepts, the load succeeds and the
\* loaded sequence is, in input order, exactly the rows after the first one
\* that have at least 3 fields and whose third field ParseInt accepts, each
\* as (staff id, team name, parsed created_at); the first row is never loaded.
Parseable(file) ==
  /\ file.opens
  /\ \A i \in 1..Len(file.rows) :
       ~HasBareQuote(file.rows[i]) /\ Len(file.rows[i]) = Len(file.rows[1])
\* the k-th smallest index of the set idx
Kth(idx, k) == CHOOSE i \in idx : Cardinality({j \in idx : j <= i}) = k
RecordOfRow(row) == StaffMapping(row[1], row[2], ParseInt(row[3]).val)
C11_LoadedRows ==
  (loadPc # "start" /\ Parseable(csvFile)) =>
    LET idx == ValidDataRows(csvFile) IN
      /\ loadErr = NoErr
      /\ Len(mappings) = Cardinality(idx)
      /\ \A k \in 1..Len(mappings) : mappings[k] = RecordOfRow(csvFile.rows[Kth(idx, k)])
C11_Witness ==
  /\ loadPc = "loaded"
  /\ csvFile.rows = << <<"S1", "RUST", "1000">>, <<"S1", "RUST", "12a">>, <<"S2", "BASS", "-5">> >>
  /\ mappings = << StaffMapping("S2", "BASS", 0 - 5) >>

\* C12: the lookup built from the loaded sequence has exactly the staff ids of
\* the sequence as keys and maps each to the team name of its last
\* occurrence; any other staff id is not found.
LastIndexOf(ms, id) ==
  CHOOSE i \in 1..Len(ms) :
    ms[i].StaffPassID = id /\ \A j \in (i + 1)..Len(ms) : ms[j].StaffPassID # id
C12_LookupLastWins ==
  loadPc \notin {"start", "failed", "loaded"} =>
    /\ DOMAIN lookup = {mappings[i].StaffPassID : i \in 1..Len(mappings)}
    /\ \A id \in DOMAIN lookup : lookup[id] = mappings[LastIndexOf(mappings, id)].TeamName
C12_Witness ==
  /\ loadPc = "ready"
  /\ mappings = << StaffMapping("S1", "RUST", 1000), StaffMapping("S1", "BASS", 20) >>
  /\ lookup["S1"] = "BASS"
  /\ "S2" \notin DOMAIN lookup

\* C13: when the file cannot be opened or the csv reader rejects it, the load
\* returns an error and no mappings, main stops there: no lookup is built, no
\* RedemptionManager is created, no input is read, no redemption is recorded.
C13_LoadFailureStopsMain ==
  (loadPc # "start" /\ ~Parseable(csvFile)) =>
    /\ loadErr # NoErr
    /\ mappings = <<>>
    /\ loadPc = "failed"
    /\ lookup = EmptyLookup
    /\ requests = 0 /\ calls = 0
    /\ redemptions = EmptyMap
C13_Witness ==
  /\ loadPc = "failed"
  /\ csvFile = [opens |-> TRUE, rows |-> <<Header, BareQuote>>]
  /\ loadErr # NoErr /\ mappings = <<>>

\* C14: main leaves the loop only on the input "exit"; an iteration that
\* ends with "not found" or "already redeemed" leaves the store as it was
\* when the input was read, and control is back at the prompt.
C14_OnlyExitEndsLoop ==
  /\ loadPc = "exited" => staffPassID = "exit"
  /\ (reqPc[MainProc] = "out" /\ outcome[MainProc] \in {NotFound, TeamAlreadyRedeemed}
        /\ staffPassID # "exit") =>
       /\ redemptions = storeAtPrompt
       /\ loadPc = "prompt"
C14_Witness ==
  /\ loadPc = "prompt" /\ reqPc[MainProc] = "out"
  /\ staffPassID = "S9" /\ outcome[MainProc] = NotFound
  /\ resolved["BASS"] = 2 /\ okCount["BASS"] = 1
  /\ redemptions = storeAtPrompt

\* C15: once built, the lookup is never changed by any step of main or of
\* the RedemptionManager.
C15_LookupFrozen ==
  [][loadPc \notin {"start", "loaded"} => lookup' = lookup]_vars
C15_Witness ==
  /\ loadPc = "prompt" /\ reqPc[MainProc] = "out"
  /\ lookup = BuildLookupMap(mappings) /\ lookup # EmptyLookup
  /\ staffPassID = "S1" /\ resolved[lookup["S1"]] = 2 /\ resolved["BASS"] = 0

\* C18: when concurrent callers each run IsEligible(t) and then, only if it
\* returned true, AddRedemption(t), then once all callers of t are finished
\* exactly one has a successful redemption, every other one either saw
\* IsEligible return false or saw it return true and got AlreadyRedeemed, and
\* the store holds exactly one record for t.
Requesters(t) == {p \in Procs : reqPc[p] # "none" /\ arg[p] = t}
C18_RequestSequences ==
  \A t \in TeamNames :
    (Requesters(t) # {} /\ \A p \in Requesters(t) : reqPc[p] = "out") =>
      /\ Cardinality({p \in Requesters(t) : outcome[p] = RedemptionSuccessful}) = 1
      /\ \A p \in Requesters(t) :
           \/ outcome[p] = RedemptionSuccessful /\ op[p] = "AddRedemption" /\ result[p].err = NoErr
           \/ outcome[p] = TeamAlreadyRedeemed /\ op[p] = "IsEligible" /\ ~result[p].val
           \/ outcome[p] = RedemptionError /\ op[p] = "AddRedemption" /\ result[p] = Failure
      /\ HasRecord(redemptions, t) /\ Cardinality(RecordsOf(t)) = 1
C18_Witness ==
  /\ Requesters("RUST") = Procs
  /\ \A p \in Procs : reqPc[p] = "out"
  /\ \E p \in Procs : outcome[p] = RedemptionError

\* C19: main alone on its Guard never prints "Error during redemption": an
\* AddRedemption entered after IsEligible returned true succeeds, the first
\* resolved input of a team ends in a successful redemption and every later
\* one, through whatever staff id, in "already redeemed".
C19_NoRedemptionError ==
  /\ outcome[MainProc] # RedemptionError
  /\ (reqPc[MainProc] = "add" /\ pc[MainProc] = "done") => result[MainProc].err = NoErr
  /\ (reqPc[MainProc] = "out" /\ staffPassID \in DOMAIN lookup) =>
       LET t == lookup[staffPassID] IN
         /\ resolved[t] = 1 => outcome[MainProc] = RedemptionSuccessful
         /\ resolved[t] >= 2 => outcome[MainProc] = TeamAlreadyRedeemed
C19_Witness ==
  /\ reqPc[MainProc] = "out" /\ staffPassID = "S2"
  /\ DOMAIN lookup = {"S1", "S2"} /\ lookup["S1"] = "BASS" /\ lookup["S2"] = "BASS"
  /\ resolved["BASS"] = 3 /\ okCount["BASS"] = 1
  /\ outcome[MainProc] = TeamAlreadyRedeemed

\* C16: a caller between Lock and Unlock is the holder of the mutex, so at
\* most one caller is there at a time; every step that reads or writes the
\* map is taken by the holder; and between the check and the insert of an
\* AddRedemption call the lock stays with that call and no other caller
\* accesses the map.
Holding(p) == pc[p] \in {"read", "create", "store", "unlock"}
Accesses(p) == Steps(p) /\ pc[p] \in {"read", "store"}
Exclusive == \A p \in Procs : Holding(p) => mu = p
C16_MutualExclusion ==
  [][/\ Exclusive /\ Exclusive'
     /\ Cardinality({p \in Procs : Holding(p)}) <= 1
     /\ \A p \in Procs : Accesses(p) => mu = p
     /\ redemptions' # redemptions => \E p \in Procs : Accesses(p) /\ mu = p
     /\ \A p \in Procs :
          (op[p] = "AddRedemption" /\ pc[p] \in {"create", "store"}) =>
            /\ mu = p /\ mu' = p
            /\ \A q \in Procs \ {p} : ~Accesses(q)]_vars
C16_Witness ==
  \E p, q \in Procs :
    /\ p # q
    /\ op[p] = "AddRedemption" /\ pc[p] = "store" /\ mu = p
    /\ op[q] = "AddRedemption" /\ arg[q] = arg[p] /\ pc[q] = "lock"

\* C17: under fair scheduling every call that was started returns.
C17_EveryCallReturns ==
  \A p \in Procs : InFlight(p) ~> (pc[p] = "done")
C17_Witness ==
  \E p, q \in Procs :
    /\ p # q
    /\ pc[p] = "done" /\ result[p] = Failure
    /\ pc[q] = "read" /\ mu = q

TypeOK ==
  /\ DOMAIN redemptions \subseteq TeamNames
  /\ mu \in 0..NumProcs
====
